---- MODULE Spec2Model ----
(***************************************************************************)
(* Model of src/fastpass_simulator.py: simulate_fastpass_system, a         *)
(* discrete-event simulation of a single server with two customer classes  *)
(* (FastPass holders first, non-preemptive).                               *)
(*                                                                         *)
(* Time is counted in integer ticks.  The two horizons keep the order      *)
(* 0 < WARM_UP_TIME < SIMULATION_TIME of the source but are scaled down.   *)
(* A random draw is a nondeterministic choice over the values the draw can *)
(* produce.                                                                *)
(***************************************************************************)
EXTENDS Integers, Sequences, FiniteSets, TLC

\* ---------------------------------------------------------------- constants
SIMULATION_TIME == 3
WARM_UP_TIME == 1
SERVICE_RATE == 1

ARRIVAL == "arrival"
DEPARTURE == "departure"
FASTPASS == "fastpass"
REGULAR == "regular"
CustomerTypes == {FASTPASS, REGULAR}

\* Python's None, for a customer reference and for departure_time.
None == -1

\* ------------------------------------------------------------------- bounds
\* Largest duration a draw of the exponential generator yields in the model.
MaxDur == 2
\* Largest number of customers created in one run.  It is at least
\* SIMULATION_TIME, so a run whose draws all advance the clock never meets it.
MaxCustomers == 4
\* fastpass_fraction and the uniform draws are counted in units of 1/FracDen.
FracDen == 2

\* Smallest effect of a draw on the clock.  generate_exponential returns
\* np.random.exponential(1.0 / rate) as it comes: a float >= 0.0, with no
\* retry of a zero, and time + duration is a float sum, so a small positive
\* duration leaves a large time unchanged (40000.0 + 1e-12 = 40000.0).  A
\* scheduled event can therefore carry the very time it was scheduled at.
MinDur == 0

\* The inputs of simulate_fastpass_system the model enumerates.
ArrivalRates == {-1, 0, 1}
FastpassFractions == {-1, 0, 1, FracDen, FracDen + 1}

VARIABLES
    pc,                \* "start", "running", "done" or "error"
    arrival_rate,      \* parameter
    fastpass_fraction, \* parameter, in units of 1/FracDen
    current_time,
    server_busy,
    server_end_time,
    fastpass_queue,    \* sequence of customer ids
    regular_queue,     \* sequence of customer ids
    event_queue,       \* the heap list: sequence of events
    stats,             \* [type -> record]
    event,             \* the event popped by the last loop iteration
    customers,         \* the Customer objects created so far, by id
    dispatched,        \* history: ids of the customers start_service took, in order
    dispatch_view      \* history: the two queues as start_service last found them

vars == <<pc, arrival_rate, fastpass_fraction, current_time, server_busy,
          server_end_time, fastpass_queue, regular_queue, event_queue, stats,
          event, customers, dispatched, dispatch_view>>

\* ------------------------------------------------------------------ helpers
Range(s) == {s[i] : i \in 1 .. Len(s)}

Max(a, b) == IF a >= b THEN a ELSE b

RECURSIVE Gcd(_, _)
Gcd(a, b) == IF b = 0 THEN a ELSE Gcd(b, a % b)

\* A float result of a division, kept exact as a reduced fraction <<n, d>>.
Quotient(n, d) == <<n \div Gcd(n, d), d \div Gcd(n, d)>>

\* The float 0.0.
Zero == <<0, 1>>

\* class Event
Event(time, event_type, customer) ==
    [time |-> time, type |-> event_type, customer |-> customer]

\* Event.__lt__ with the comparison turned round.
EventLtReversed(a, b) == a.time > b.time

\* Event.__lt__
EventLt(a, b) == a.time < b.time

\* class Customer
Customer(customer_type, arrival_time) ==
    [type |-> customer_type, arrival_time |-> arrival_time, departure_time |-> None]

\* Customer.residence_time
ResidenceTime(c) ==
    IF c.departure_time = None THEN None ELSE c.departure_time - c.arrival_time

\* generate_exponential: the durations a draw at this rate can yield; no
\* value when the call raises (1.0 / 0 or a negative scale).
GenerateExponential(rate) == IF rate > 0 THEN MinDur .. MaxDur ELSE {}

\* np.random.random(): a uniform draw in [0, 1), in units of 1/FracDen.
UniformDraws == 0 .. (FracDen - 1)

\* ------------------------------------------------------- heapq on event_queue
\* heapq._siftdown: positions are 0-based as in the library; heap[p + 1] is the
\* entry at position p.
RECURSIVE SiftDownLoop(_, _, _, _)
SiftDownLoop(heap, startpos, pos, newitem) ==
    IF pos > startpos
    THEN LET parentpos == (pos - 1) \div 2
             parent == heap[parentpos + 1]
         IN  IF EventLt(newitem, parent)
             THEN SiftDownLoop([heap EXCEPT ![pos + 1] = parent], startpos, parentpos, newitem)
             ELSE [heap EXCEPT ![pos + 1] = newitem]
    ELSE [heap EXCEPT ![pos + 1] = newitem]

SiftDown(heap, startpos, pos) == SiftDownLoop(heap, startpos, pos, heap[pos + 1])

\* heapq._siftup
RECURSIVE SiftUpLoop(_, _, _, _, _)
SiftUpLoop(heap, startpos, pos, childpos, newitem) ==
    IF childpos < Len(heap)
    THEN LET rightpos == childpos + 1
             c == IF rightpos < Len(heap)
                     /\ ~EventLt(heap[childpos + 1], heap[rightpos + 1])
                  THEN rightpos
                  ELSE childpos
         IN  SiftUpLoop([heap EXCEPT ![pos + 1] = heap[c + 1]], startpos, c, 2 * c + 1, newitem)
    ELSE SiftDown([heap EXCEPT ![pos + 1] = newitem], startpos, pos)

SiftUp(heap, pos) == SiftUpLoop(heap, pos, pos, 2 * pos + 1, heap[pos + 1])

\* heapq.heappush(event_queue, item)
HeapPush(heap, item) == SiftDown(Append(heap, item), 0, Len(heap))

\* heapq.heappop(event_queue): the item returned
HeapPopItem(heap) == IF Len(heap) > 1 THEN heap[1] ELSE heap[Len(heap)]

\* Reading the first event without removing it (event_queue[0] for heappop).
HeapPopRestKept(heap) == heap

\* heapq.heappop(event_queue): the heap left
HeapPopRest(heap) ==
    LET lastelt == heap[Len(heap)]
        rest == SubSeq(heap, 1, Len(heap) - 1)
    IN  IF rest # <<>> THEN SiftUp([rest EXCEPT ![1] = lastelt], 0) ELSE rest

\* ------------------------------------------------------------- start_service
\* start_service serving the regular queue first.
SelectQueueRegularFirst(fq, rq) ==
    IF rq # <<>> THEN REGULAR ELSE IF fq # <<>> THEN FASTPASS ELSE "none"

\* The queue start_service takes its customer from.
SelectQueue(fq, rq) ==
    IF fq # <<>> THEN FASTPASS ELSE IF rq # <<>> THEN REGULAR ELSE "none"

\* start_service reading the head of the queue without removing it
\* (queue[0] for queue.popleft()).
StartServicePeek(st, time, service_time) ==
    LET q == SelectQueue(st.fastpass_queue, st.regular_queue)
        customer == IF q = FASTPASS THEN Head(st.fastpass_queue)
                    ELSE Head(st.regular_queue)
    IN  IF q = "none"
        THEN [st EXCEPT !.customer = None]
        ELSE [st EXCEPT !.server_busy = TRUE,
                        !.server_end_time = time + service_time,
                        !.event_queue = HeapPush(st.event_queue,
                                           Event(time + service_time, DEPARTURE, customer)),
                        !.customer = customer]

\* start_service taking the newest customer of the queue (queue.pop() for
\* queue.popleft()).
StartServiceLifo(st, time, service_time) ==
    LET q == SelectQueue(st.fastpass_queue, st.regular_queue)
        queue == IF q = FASTPASS THEN st.fastpass_queue ELSE st.regular_queue
        customer == queue[Len(queue)]
        rest == SubSeq(queue, 1, Len(queue) - 1)
    IN  IF q = "none"
        THEN [st EXCEPT !.customer = None]
        ELSE [fastpass_queue |-> IF q = FASTPASS THEN rest ELSE st.fastpass_queue,
              regular_queue |-> IF q = REGULAR THEN rest ELSE st.regular_queue,
              server_busy |-> TRUE,
              server_end_time |-> time + service_time,
              event_queue |-> HeapPush(st.event_queue,
                                       Event(time + service_time, DEPARTURE, customer)),
              customer |-> customer]

\* start_service(time) on the state st = [fastpass_queue, regular_queue,
\* event_queue, server_busy, server_end_time], with service_time the draw of
\* generate_exponential(SERVICE_RATE).  customer is the id taken, None when it
\* returns without serving.
StartService(st, time, service_time) ==
    LET q == SelectQueue(st.fastpass_queue, st.regular_queue)
        customer == IF q = FASTPASS THEN Head(st.fastpass_queue)
                    ELSE Head(st.regular_queue)
    IN  IF q = "none"
        THEN [st EXCEPT !.customer = None]
        ELSE [fastpass_queue |-> IF q = FASTPASS THEN Tail(st.fastpass_queue)
                                 ELSE st.fastpass_queue,
              regular_queue |-> IF q = REGULAR THEN Tail(st.regular_queue)
                                ELSE st.regular_queue,
              server_busy |-> TRUE,
              server_end_time |-> time + service_time,
              event_queue |-> HeapPush(st.event_queue,
                                       Event(time + service_time, DEPARTURE, customer)),
              customer |-> customer]

\* The caller's state with no call of start_service.
NoService(st) == [st EXCEPT !.customer = None]

\* The primed variables start_service writes, from the state r it leaves.
Commit(r, fq, rq) ==
    /\ fastpass_queue' = r.fastpass_queue
    /\ regular_queue' = r.regular_queue
    /\ event_queue' = r.event_queue
    /\ server_busy' = r.server_busy
    /\ server_end_time' = r.server_end_time
    /\ dispatched' = IF r.customer = None THEN dispatched
                     ELSE Append(dispatched, r.customer)
    /\ dispatch_view' = IF r.customer = None THEN dispatch_view ELSE <<fq, rq>>

\* ---------------------------------------------------------------------- Init
InitStats ==
    [t \in CustomerTypes |->
        [total_customers |-> 0, completed_customers |-> 0,
         total_residence_time |-> 0, avg_residence_time |-> Zero,
         max_residence_time |-> 0]]

\* The state after lines 74-101, for each input the model enumerates.
Init ==
    /\ pc = "start"
    /\ arrival_rate \in ArrivalRates
    /\ fastpass_fraction \in FastpassFractions
    /\ current_time = 0
    /\ server_busy = FALSE
    /\ server_end_time = 0
    /\ fastpass_queue = <<>>
    /\ regular_queue = <<>>
    /\ event_queue = <<>>
    /\ stats = InitStats
    /\ event = Event(0, "none", None)
    /\ customers = <<>>
    /\ dispatched = <<>>
    /\ dispatch_view = <<<<>>, <<>>>>

\* ------------------------------------------------------------------- actions
\* Lines 126-128: schedule the first arrival.  generate_exponential raises for
\* arrival_rate <= 0 and the call ends with that exception.
FirstArrival ==
    /\ pc = "start"
    /\ IF GenerateExponential(arrival_rate) = {}
       THEN /\ pc' = "error"
            /\ event_queue' = event_queue
       ELSE /\ pc' = "running"
            /\ \E first_arrival_time \in GenerateExponential(arrival_rate) :
                   event_queue' = HeapPush(event_queue,
                                           Event(first_arrival_time, ARRIVAL, None))
    /\ UNCHANGED <<arrival_rate, fastpass_fraction, current_time, server_busy,
                   server_end_time, fastpass_queue, regular_queue, stats, event,
                   customers, dispatched, dispatch_view>>

\* The loop condition without the horizon test.
LoopConditionNoHorizon == event_queue # <<>>

\* The loop condition with <= for <.
LoopConditionInclusive == event_queue # <<>> /\ current_time <= SIMULATION_TIME

\* Line 131: the condition of the main loop.
LoopCondition == event_queue # <<>> /\ current_time < SIMULATION_TIME

\* The class test with <= for <.
CustomerTypeInclusive(u) == IF u <= fastpass_fraction THEN FASTPASS ELSE REGULAR

\* Line 138: the class of the arriving customer, for the uniform draw u.
CustomerType(u) == IF u < fastpass_fraction THEN FASTPASS ELSE REGULAR

\* The arrival branch not counting the customer.
CountArrivalDropped(s) == s

\* Lines 143-144: the statistics of the arriving customer's class.
CountArrival(s) == [s EXCEPT !.total_customers = @ + 1]

\* The arrival branch with the status test turned round.
ArrivalStartsServiceInverted(busy) == busy

\* The arrival branch calling start_service whatever the server status.
ArrivalStartsServiceAlways(busy) == TRUE

\* Line 157: whether the arrival branch calls start_service.
ArrivalStartsService(busy) == ~busy

\* Lines 131-158: one loop iteration that pops an Arrival event.
Arrival ==
    /\ pc = "running"
    /\ LoopCondition
    /\ HeapPopItem(event_queue).type = ARRIVAL
    /\ Len(customers) < MaxCustomers
    /\ \E u \in UniformDraws, gap \in GenerateExponential(arrival_rate),
          service_time \in GenerateExponential(SERVICE_RATE) :
          LET ev == HeapPopItem(event_queue)
              now == ev.time
              customer_type == CustomerType(u)
              id == Len(customers) + 1
              fq == IF customer_type = FASTPASS THEN Append(fastpass_queue, id)
                    ELSE fastpass_queue
              rq == IF customer_type = FASTPASS THEN regular_queue
                    ELSE Append(regular_queue, id)
              eq == HeapPush(HeapPopRest(event_queue), Event(now + gap, ARRIVAL, None))
              st == [fastpass_queue |-> fq, regular_queue |-> rq, event_queue |-> eq,
                     server_busy |-> server_busy, server_end_time |-> server_end_time,
                     customer |-> None]
              r == IF ArrivalStartsService(server_busy)
                   THEN StartService(st, now, service_time)
                   ELSE NoService(st)
          IN  /\ event' = ev
              /\ current_time' = now
              /\ customers' = Append(customers, Customer(customer_type, now))
              /\ stats' = [stats EXCEPT ![customer_type] = CountArrival(@)]
              /\ Commit(r, fq, rq)
    /\ UNCHANGED <<pc, arrival_rate, fastpass_fraction>>

\* The warm-up test with >= for >.
AfterWarmUpInclusive(time) == time >= WARM_UP_TIME

\* Line 168: whether a departure at this time is counted.
AfterWarmUp(time) == time > WARM_UP_TIME

\* The departure branch counting the customer as arrived as well.
CollectCountingTotal(s, residence_time) ==
    [s EXCEPT !.total_customers = @ + 1,
              !.completed_customers = @ + 1,
              !.total_residence_time = @ + residence_time,
              !.max_residence_time = Max(@, residence_time)]

\* Lines 169-176: the statistics of one class after a counted departure.
Collect(s, residence_time) ==
    [s EXCEPT !.completed_customers = @ + 1,
              !.total_residence_time = @ + residence_time,
              !.max_residence_time = Max(@, residence_time)]

\* The departure branch leaving the server status as it was.
DepartureServerBusyKept(busy) == busy

\* Line 162: the server status the departure branch sets.
DepartureServerBusy(busy) == FALSE

\* Lines 131-134, 160-180: one loop iteration that pops a Departure event.
Departure ==
    /\ pc = "running"
    /\ LoopCondition
    /\ HeapPopItem(event_queue).type = DEPARTURE
    /\ \E service_time \in GenerateExponential(SERVICE_RATE) :
          LET ev == HeapPopItem(event_queue)
              now == ev.time
              id == ev.customer
              departed == [customers[id] EXCEPT !.departure_time = now]
              st == [fastpass_queue |-> fastpass_queue, regular_queue |-> regular_queue,
                     event_queue |-> HeapPopRest(event_queue),
                     server_busy |-> DepartureServerBusy(server_busy),
                     server_end_time |-> server_end_time, customer |-> None]
              r == IF fastpass_queue # <<>> \/ regular_queue # <<>>
                   THEN StartService(st, now, service_time)
                   ELSE NoService(st)
          IN  /\ event' = ev
              /\ current_time' = now
              /\ customers' = [customers EXCEPT ![id] = departed]
              /\ stats' = IF AfterWarmUp(now)
                          THEN [stats EXCEPT ![departed.type] =
                                    Collect(@, ResidenceTime(departed))]
                          ELSE stats
              /\ Commit(r, fastpass_queue, regular_queue)
    /\ UNCHANGED <<pc, arrival_rate, fastpass_fraction>>

\* Lines 184-188: the average residence time reported for one class.
Average(s) ==
    IF s.completed_customers > 0
    THEN Quotient(s.total_residence_time, s.completed_customers)
    ELSE s.avg_residence_time

\* Lines 131, 182-190: the loop ends, the averages are computed, stats returned.
Finish ==
    /\ pc = "running"
    /\ ~LoopCondition
    /\ pc' = "done"
    /\ stats' = [t \in CustomerTypes |->
                    [stats[t] EXCEPT !.avg_residence_time = Average(stats[t])]]
    /\ UNCHANGED <<arrival_rate, fastpass_fraction, current_time, server_busy,
                   server_end_time, fastpass_queue, regular_queue, event_queue,
                   event, customers, dispatched, dispatch_view>>

Next == FirstArrival \/ Arrival \/ Departure \/ Finish

Spec == Init /\ [][Next]_vars

\* ------------------------------------------------------- derived state views
\* Positions of the pending Departure events in the event queue.
PendingDepartures == {i \in 1 .. Len(event_queue) : event_queue[i].type = DEPARTURE}

\* The pending Departure events.
DepartureEvents == {event_queue[i] : i \in PendingDepartures}

\* Customers whose Departure event has been processed.
Departed == {i \in 1 .. Len(customers) : customers[i].departure_time # None}

\* A loop iteration that popped an Arrival event creates one customer.
ArrivalStep == Len(customers') = Len(customers) + 1

\* A loop iteration that popped a Departure event sets one departure_time.
DepartureStep == Cardinality(Departed') = Cardinality(Departed) + 1

IsPrefix(s, t) == Len(s) <= Len(t) /\ SubSeq(t, 1, Len(s)) = s

Last(s) == s[Len(s)]

\* ------------------------------------------------------------------- claims
\* C1 (priority enforcement): whenever start_service has dispatched a
\* customer, if the FastPass queue it found was non-empty the customer is the
\* head of that queue; a regular customer is dispatched only when the
\* FastPass queue it found was empty, and is then the head of the regular queue.
C1_PriorityEnforcement ==
    dispatched # <<>> =>
        LET c == Last(dispatched)
            fq == dispatch_view[1]
            rq == dispatch_view[2]
        IN  /\ fq # <<>> => c = Head(fq) /\ customers[c].type = FASTPASS
            /\ customers[c].type = REGULAR => fq = <<>> /\ c = Head(rq)

\* C1 witness: a dispatch that found customers waiting in both queues and
\* took the FastPass one.
C1_Witness ==
    /\ dispatched # <<>>
    /\ dispatch_view[1] # <<>>
    /\ dispatch_view[2] # <<>>
    /\ customers[Last(dispatched)].type = FASTPASS

\* C2 (non-preemption): in every step taken while the server is Busy other
\* than the processing of a Departure event, no customer is dispatched or
\* removed from a queue, the server stays Busy and the pending Departure
\* event is unchanged; a Departure processed while Busy is the one of the
\* customer in service.
C2_NonPreemption ==
    [][server_busy =>
          /\ ~DepartureStep =>
                /\ dispatched' = dispatched
                /\ DepartureEvents' = DepartureEvents
                /\ server_busy'
                /\ server_end_time' = server_end_time
                /\ IsPrefix(fastpass_queue, fastpass_queue')
                /\ IsPrefix(regular_queue, regular_queue')
          /\ DepartureStep => event' \in DepartureEvents]_vars

\* C2 witness: a FastPass customer has just arrived and waits while a
\* regular customer is in service.
C2_Witness ==
    /\ server_busy
    /\ event.type = ARRIVAL
    /\ customers # <<>>
    /\ customers[Len(customers)].type = FASTPASS
    /\ customers[Len(customers)].arrival_time = current_time
    /\ Len(customers) \in Range(fastpass_queue)
    /\ \E e \in DepartureEvents : customers[e.customer].type = REGULAR

\* C3 (server invariant): at most one Departure event is pending; the server
\* is Busy iff exactly one is pending, and that event carries the customer
\* dispatched last and the time server_end_time.
C3_ServerInvariant ==
    /\ Cardinality(PendingDepartures) <= 1
    /\ server_busy <=> Cardinality(PendingDepartures) = 1
    /\ server_busy =>
          \A i \in PendingDepartures :
              /\ dispatched # <<>>
              /\ event_queue[i].customer = Last(dispatched)
              /\ event_queue[i].time = server_end_time

\* C3 witness: the server is Idle again after a departure that found both
\* queues empty.
C3_Witness ==
    /\ pc = "running"
    /\ ~server_busy
    /\ event.type = DEPARTURE
    /\ PendingDepartures = {}

\* C4 (event ordering): every pop returns a pending event whose time is the
\* minimum of the pending times, current_time becomes that time, and
\* current_time never decreases.
C4_EventOrdering ==
    [][(ArrivalStep \/ DepartureStep) =>
          /\ event' \in Range(event_queue)
          /\ \A e \in Range(event_queue) : event'.time <= e.time
          /\ current_time' = event'.time
          /\ current_time' >= current_time]_vars

\* C4 witness: an event was popped while a later one stays pending.
C4_Witness ==
    /\ event.type = DEPARTURE
    /\ current_time > 0
    /\ \E e \in Range(event_queue) : e.time > current_time

\* C5 (causality): every customer whose Departure event has been processed
\* has departure_time > arrival_time, and a departure_time once set is never
\* assigned again.
C5_Causality ==
    [][\A i \in Departed' :
          /\ customers'[i].departure_time > customers'[i].arrival_time
          /\ i \in Departed => customers'[i] = customers[i]]_vars

\* Class-c customers whose departure was processed at or before the warm-up
\* cutoff.
BeforeWarmUp(c) ==
    {i \in Departed : customers[i].type = c /\ customers[i].departure_time <= WARM_UP_TIME}

\* The queue of class c.
ClassQueue(c) == IF c = FASTPASS THEN fastpass_queue ELSE regular_queue

\* Class-c customers in service: those a pending Departure event carries.
InService(c) == {i \in PendingDepartures : customers[event_queue[i].customer].type = c}

\* C6 (conservation): for each class c, completed_customers[c] <=
\* total_customers[c], and total_customers[c] is the sum of
\* completed_customers[c], the class-c departures processed at or before the
\* warm-up cutoff, the class-c customers waiting and the class-c customers in
\* service (0 or 1).
C6_Conservation ==
    \A c \in CustomerTypes :
        /\ stats[c].completed_customers <= stats[c].total_customers
        /\ Cardinality(InService(c)) <= 1
        /\ stats[c].total_customers =
              stats[c].completed_customers + Cardinality(BeforeWarmUp(c))
              + Len(ClassQueue(c)) + Cardinality(InService(c))

\* C6 witness: one class has at once a counted completion, a departure before
\* the cutoff and a customer in service.
C6_Witness ==
    \E c \in CustomerTypes :
        /\ stats[c].completed_customers >= 1
        /\ BeforeWarmUp(c) # {}
        /\ InService(c) # {}

\* C7 (warm-up exclusion): processing a Departure at a time strictly greater
\* than WARM_UP_TIME adds one to the class's completed count, adds the
\* residence time to its sum and raises its maximum to at least the residence
\* time, leaving the other class alone; processing one at a time <=
\* WARM_UP_TIME leaves all statistics unchanged.
C7_WarmUpExclusion ==
    [][DepartureStep =>
          LET c == customers'[event'.customer]
              residence == event'.time - c.arrival_time
          IN  IF event'.time > WARM_UP_TIME
              THEN /\ stats'[c.type].completed_customers =
                          stats[c.type].completed_customers + 1
                   /\ stats'[c.type].total_residence_time =
                          stats[c.type].total_residence_time + residence
                   /\ stats'[c.type].max_residence_time =
                          Max(stats[c.type].max_residence_time, residence)
                   /\ \A t \in CustomerTypes \ {c.type} : stats'[t] = stats[t]
              ELSE stats' = stats]_vars

\* C7 witness: a customer that arrived before the cutoff has just departed
\* exactly at the cutoff and no completion is counted.
C7_Witness ==
    /\ event.type = DEPARTURE
    /\ event.time = WARM_UP_TIME
    /\ customers[event.customer].departure_time = WARM_UP_TIME
    /\ customers[event.customer].arrival_time < WARM_UP_TIME
    /\ \A t \in CustomerTypes : stats[t].completed_customers = 0

\* The model's cap on customers leaves room for the next arrival.
WithinBounds == Len(customers) < MaxCustomers

\* C8 as stated (stop condition): the run is Finished only with the event
\* queue empty or current_time strictly greater than the horizon; with the
\* event queue non-empty and current_time <= the horizon another event is
\* popped and processed.
C8_StopConditionStrict ==
    /\ pc = "done" => event_queue = <<>> \/ current_time > SIMULATION_TIME
    /\ pc = "running" =>
          (ENABLED Finish <=> event_queue = <<>> \/ current_time > SIMULATION_TIME)
    /\ pc = "running" /\ event_queue # <<>> /\ current_time <= SIMULATION_TIME
          /\ WithinBounds => ENABLED (Arrival \/ Departure)

\* C8 as amended: the run is Finished exactly when the event queue is empty
\* or current_time has reached the horizon (current_time >= SIMULATION_TIME);
\* with the event queue non-empty and current_time strictly below the horizon
\* another event is popped and processed, and otherwise none is.
C8_StopCondition ==
    /\ pc = "done" => event_queue = <<>> \/ current_time >= SIMULATION_TIME
    /\ pc = "running" =>
          (ENABLED Finish <=> event_queue = <<>> \/ current_time >= SIMULATION_TIME)
    /\ pc = "running" /\ event_queue # <<>> /\ current_time < SIMULATION_TIME
          /\ WithinBounds => ENABLED (Arrival \/ Departure)
    /\ pc = "running" /\ (event_queue = <<>> \/ current_time >= SIMULATION_TIME)
          => ~ENABLED (Arrival \/ Departure)

\* C8 witness: the run has finished with current_time exactly at the horizon
\* and events still pending.
C8_Witness ==
    /\ pc = "done"
    /\ current_time = SIMULATION_TIME
    /\ event_queue # <<>>

\* The configurations the specification calls invalid.
InvalidConfiguration ==
    \/ arrival_rate <= 0
    \/ SERVICE_RATE <= 0
    \/ fastpass_fraction < 0
    \/ fastpass_fraction > FracDen
    \/ WARM_UP_TIME >= SIMULATION_TIME

\* C9 (invalid configuration fails fast): with an invalid configuration the
\* call ends in an error before the first arrival is scheduled and before any
\* event is processed.
C9_InvalidConfigurationFailsFast ==
    InvalidConfiguration =>
        /\ pc \in {"start", "error"}
        /\ event_queue = <<>>
        /\ customers = <<>>

\* C10 (undefined statistic): when the run has finished with no post-warm-up
\* completion for a class, the average residence time reported for the class
\* is not the number zero.
C10_UndefinedAverage ==
    pc = "done" =>
        \A t \in CustomerTypes :
            stats[t].completed_customers = 0 => stats[t].avg_residence_time # Zero

\* Customers of class c that start_service has dispatched.
DispatchedOf(c) == {i \in Range(dispatched) : customers[i].type = c}

\* No customer of class c was ever created, queued, dispatched or completed.
ClassAbsent(c) ==
    /\ stats[c].total_customers = 0
    /\ stats[c].completed_customers = 0
    /\ ClassQueue(c) = <<>>
    /\ DispatchedOf(c) = {}
    /\ \A i \in 1 .. Len(customers) : customers[i].type # c

\* C11 (degenerate fractions): with fastpass_fraction = 0 the priority class
\* has total_customers = 0, an empty queue and no dispatch or completion in
\* every reachable state; with fastpass_fraction = 1 (FracDen units) the same
\* holds of the regular class.
C11_DegenerateFractions ==
    /\ fastpass_fraction = 0 => ClassAbsent(FASTPASS)
    /\ fastpass_fraction = FracDen => ClassAbsent(REGULAR)

\* C11 witness: a run with fastpass_fraction = 0 has finished with regular
\* customers created, dispatched and completed.
C11_Witness ==
    /\ pc = "done"
    /\ fastpass_fraction = 0
    /\ stats[REGULAR].total_customers >= 2
    /\ stats[REGULAR].completed_customers >= 1
    /\ DispatchedOf(REGULAR) # {}

\* A step whose draws all advance the clock: the arrival it schedules is
\* later than the time it is scheduled at, and so is the end of the service
\* it starts.
Advancing ==
    /\ (pc = "start" \/ ArrivalStep) =>
          \A e \in Range(event_queue') : e.type = ARRIVAL => e.time > current_time'
    /\ dispatched' # dispatched => server_end_time' > current_time'

FirstArrivalAdvancing == FirstArrival /\ Advancing

ArrivalAdvancing == Arrival /\ Advancing

DepartureAdvancing == Departure /\ Advancing

NextAdvancing ==
    FirstArrivalAdvancing \/ ArrivalAdvancing \/ DepartureAdvancing \/ Finish

\* The runs with positive interarrival and service durations.  The call is
\* synchronous: while a step is possible the loop takes it.
SpecAdvancing == Init /\ [][NextAdvancing]_vars /\ WF_vars(NextAdvancing)

\* C13 (termination): with a positive arrival rate and draws that all
\* advance the clock, every run eventually leaves the main loop and is
\* Finished.
C13_Termination == arrival_rate > 0 => <>(pc = "done")

\* C13 witness: a run with advancing draws has finished after processing
\* arrivals and departures up to the horizon.
C13_Witness ==
    /\ pc = "done"
    /\ arrival_rate > 0
    /\ Len(customers) >= 2
    /\ Departed # {}
    /\ current_time >= SIMULATION_TIME

\* FastPass customers that arrived after customer r (ids count arrivals) and
\* were dispatched.
Overtakers(r) == {c \in DispatchedOf(FASTPASS) : c > r}

\* C14 (deferral of regular customers): at every dispatch that finds the
\* FastPass queue non-empty, a FastPass customer is taken and every regular
\* customer found waiting stays in the regular queue, however many FastPass
\* customers that arrived after it were dispatched before; a regular
\* customer is dispatched only by a dispatch that finds the FastPass queue
\* empty.  Nothing bounds the number of such dispatches.
C14_Deferral ==
    [][dispatched' # dispatched =>
          LET fq == dispatch_view'[1]
              rq == dispatch_view'[2]
              c == Last(dispatched')
          IN  /\ fq # <<>> =>
                    /\ customers'[c].type = FASTPASS
                    /\ regular_queue' = rq
                    /\ \A r \in Range(rq) : Overtakers(r)' =
                              Overtakers(r) \cup (IF c > r THEN {c} ELSE {})
              /\ fq = <<>> => c = Head(rq) /\ regular_queue' = Tail(rq)]_vars

\* C14 witness: the run has finished with a regular customer still waiting
\* that two FastPass customers, both arrived after it, have overtaken.
C14_Witness ==
    /\ pc = "done"
    /\ \E r \in Range(regular_queue) : Cardinality(Overtakers(r)) >= 2

\* Customers whose Arrival event was processed at or beyond the horizon.
LateArrivals ==
    {i \in 1 .. Len(customers) : customers[i].arrival_time >= SIMULATION_TIME}

\* Customers whose Departure event was processed at or beyond the horizon.
LateDepartures == {i \in Departed : customers[i].departure_time >= SIMULATION_TIME}

\* C15 (horizon overshoot): an event popped with a time at or beyond the
\* horizon is processed in full (an Arrival creates, counts and enqueues or
\* dispatches its customer; a Departure sets departure_time and credits the
\* statistics); once current_time is at or beyond the horizon no event is
\* popped; so at most one processed event has a time at or beyond the horizon.
C15_HorizonOvershoot ==
    [][/\ current_time >= SIMULATION_TIME => ~(ArrivalStep \/ DepartureStep)
       /\ Cardinality(LateArrivals') + Cardinality(LateDepartures') <= 1
       /\ (ArrivalStep /\ event'.time >= SIMULATION_TIME) =>
             LET id == Len(customers')
                 c == customers'[id]
             IN  /\ c.arrival_time = event'.time
                 /\ stats'[c.type].total_customers = stats[c.type].total_customers + 1
                 /\ \/ id = Last(dispatched')
                    \/ c.type = FASTPASS /\ id \in Range(fastpass_queue')
                    \/ c.type = REGULAR /\ id \in Range(regular_queue')
       /\ (DepartureStep /\ event'.time >= SIMULATION_TIME) =>
             LET c == customers'[event'.customer]
             IN  /\ c.departure_time = event'.time
                 /\ stats'[c.type].completed_customers =
                        stats[c.type].completed_customers + 1
                 /\ stats'[c.type].total_residence_time =
                        stats[c.type].total_residence_time + event'.time - c.arrival_time]_vars

\* C15 witness: the run has finished on a Departure beyond the horizon that
\* was credited to the statistics.
C15_Witness ==
    /\ pc = "done"
    /\ event.type = DEPARTURE
    /\ event.time > SIMULATION_TIME
    /\ LateDepartures = {event.customer}
    /\ stats[customers[event.customer].type].completed_customers >= 1

NoDuplicates(s) == \A i, j \in 1 .. Len(s) : i # j => s[i] # s[j]

\* Customers waiting in either queue.
Waiting == Range(fastpass_queue) \cup Range(regular_queue)

\* The Departure events of customer c: pending ones and the processed one.
DepartureCount(c) ==
    Cardinality({i \in PendingDepartures : event_queue[i].customer = c})
    + (IF c \in Departed THEN 1 ELSE 0)

\* C16 (queue membership): each customer appears at most once across the
\* two queues and only in the queue of its class; the customer a pending
\* Departure carries is in neither queue; a customer is taken from its queue
\* at most once and is never queued again, so it is dispatched at most once
\* and has exactly one Departure event if dispatched and none otherwise.
C16_QueueMembership ==
    /\ NoDuplicates(fastpass_queue \o regular_queue)
    /\ \A i \in Range(fastpass_queue) : customers[i].type = FASTPASS
    /\ \A i \in Range(regular_queue) : customers[i].type = REGULAR
    /\ \A e \in DepartureEvents : e.customer \notin Waiting
    /\ NoDuplicates(dispatched)
    /\ Range(dispatched) \cap Waiting = {}
    /\ Range(dispatched) \cup Waiting = 1 .. Len(customers)
    /\ \A c \in 1 .. Len(customers) :
          DepartureCount(c) = IF c \in Range(dispatched) THEN 1 ELSE 0

\* C16 witness: customers wait in both queues while one is in service and
\* another has departed.
C16_Witness ==
    /\ fastpass_queue # <<>>
    /\ regular_queue # <<>>
    /\ server_busy
    /\ Departed # {}

Increasing(s) == \A i, j \in 1 .. Len(s) : i < j => s[i] < s[j]

\* C17 (FIFO within class): each queue holds its customers in arrival order
\* (ids count arrivals); customers of one class are dispatched in arrival
\* order; no dispatched customer has an earlier-arrived customer of its class
\* still waiting; customers of one class depart in arrival order.
C17_FifoWithinClass ==
    /\ Increasing(fastpass_queue)
    /\ Increasing(regular_queue)
    /\ \A i, j \in 1 .. Len(customers) :
          i < j => customers[i].arrival_time <= customers[j].arrival_time
    /\ \A i, j \in 1 .. Len(dispatched) :
          (i < j /\ customers[dispatched[i]].type = customers[dispatched[j]].type)
              => dispatched[i] < dispatched[j]
    /\ \A c \in Range(dispatched) :
          \A w \in Range(ClassQueue(customers[c].type)) : c < w
    /\ \A a, b \in 1 .. Len(customers) :
          (a < b /\ customers[a].type = customers[b].type /\ b \in Departed)
              => /\ a \in Departed
                 /\ customers[a].departure_time <= customers[b].departure_time

\* C17 witness: a dispatch found two regular customers waiting and took the
\* one that arrived first; the other is still waiting.
C17_Witness ==
    /\ dispatched # <<>>
    /\ dispatch_view[1] = <<>>
    /\ Len(dispatch_view[2]) >= 2
    /\ Last(dispatched) = Head(dispatch_view[2])
    /\ regular_queue = Tail(dispatch_view[2])

\* The fields of the record of class t that the Departure handler collects.
Collected(t) ==
    <<stats[t].completed_customers, stats[t].total_residence_time,
      stats[t].max_residence_time>>

\* C18 as stated (statistics frame): total arrived, completed count, summed
\* residence and maximum residence change only in a Departure step at a time
\* beyond the warm-up horizon; an Arrival step leaves all four unchanged.
C18_StatisticsFrameStrict ==
    [][\A t \in CustomerTypes :
          /\ (Collected(t)' # Collected(t)
              \/ stats'[t].total_customers # stats[t].total_customers)
                => DepartureStep /\ event'.time > WARM_UP_TIME
          /\ ArrivalStep =>
                /\ Collected(t)' = Collected(t)
                /\ stats'[t].total_customers = stats[t].total_customers]_vars

\* C18 as amended: completed count, summed residence and maximum residence
\* of a class change only in a Departure step of a customer of that class at
\* a time beyond the warm-up horizon; total arrived changes only in an
\* Arrival step, by one, for the class of the arriving customer; an Arrival
\* step, with or without a start of service, changes nothing else.
C18_StatisticsFrame ==
    [][\A t \in CustomerTypes :
          /\ Collected(t)' # Collected(t) =>
                /\ DepartureStep
                /\ event'.time > WARM_UP_TIME
                /\ customers'[event'.customer].type = t
          /\ stats'[t].total_customers # stats[t].total_customers =>
                /\ ArrivalStep
                /\ customers'[Len(customers')].type = t
          /\ ArrivalStep =>
                /\ Collected(t)' = Collected(t)
                /\ stats'[t].avg_residence_time = stats[t].avg_residence_time
                /\ stats'[t].total_customers = stats[t].total_customers
                      + (IF customers'[Len(customers')].type = t THEN 1 ELSE 0)]_vars

\* C18 witness: after the warm-up horizon, with a completion already counted,
\* an Arrival has just been processed and its customer dispatched.
C18_Witness ==
    /\ event.type = ARRIVAL
    /\ event.time > WARM_UP_TIME
    /\ dispatched # <<>>
    /\ Last(dispatched) = Len(customers)
    /\ customers[Len(customers)].arrival_time = event.time
    /\ \E t \in CustomerTypes : stats[t].completed_customers >= 1

\* C19 (work conservation): whenever the server is Idle both queues are
\* empty; whenever a customer waits the server is Busy.
C19_WorkConservation == ~server_busy => fastpass_queue = <<>> /\ regular_queue = <<>>

\* C19 witness: a Departure was processed with two customers waiting; one
\* was dispatched and the server is Busy with the other still waiting.
C19_Witness ==
    /\ event.type = DEPARTURE
    /\ server_busy
    /\ Len(dispatch_view[1]) + Len(dispatch_view[2]) >= 2
    /\ Waiting # {}
    /\ customers[Last(dispatched)].arrival_time < event.time

\* Positions of the pending Arrival events in the event queue.
PendingArrivals == {i \in 1 .. Len(event_queue) : event_queue[i].type = ARRIVAL}

\* C20 (single pending arrival): once the first arrival is scheduled the
\* event queue holds exactly one Arrival event and at most one Departure
\* event, so it is never empty and never longer than two; the loop ends only
\* with current_time at or beyond the horizon.
C20_SinglePendingArrival ==
    pc \in {"running", "done"} =>
        /\ Cardinality(PendingArrivals) = 1
        /\ Len(event_queue) \in {1, 2}
        /\ Len(event_queue) = 1 + Cardinality(PendingDepartures)
        /\ pc = "done" => current_time >= SIMULATION_TIME

\* C20 witness: the run has finished at the horizon with an Arrival and a
\* Departure still pending.
C20_Witness ==
    /\ pc = "done"
    /\ Len(event_queue) = 2
    /\ Cardinality(PendingArrivals) = 1
    /\ Departed # {}

====
